---- MODULE Spec2Model ----
(***************************************************************************)
(* Model of casingSimulations/sources.py: the five casing source classes   *)
(* (HorizontalElectricDipole, VerticalElectricDipole,                      *)
(* DownHoleTerminatingSrc, DownHoleCasingSrc, TopCasingSrc), their lazily  *)
(* cached face masks, the assembly of s_e, srcList and the wire validators.*)
(*                                                                         *)
(* Coordinates and cell widths are integers.  A comparison against a       *)
(* fraction of a cell width (h/2, 1.5 h, 1.75 h) is written multiplied     *)
(* through (2*x < 2*c + h, 4*z <= 4*b + 7*h), which is exact.  A value of   *)
(* s_e is a fraction <<numerator, denominator>> in lowest terms.           *)
(* An optional attribute is <<>> (None / unset) or <<v>>.                  *)
(***************************************************************************)
EXTENDS Integers, Sequences, FiniteSets

VARIABLES
    variant,    \* the class of the instance
    physics,    \* "FDEM" or "TDEM"
    meshGenerator, \* which mesh generator the instance holds
    cp,         \* casing parameters: src_a, src_b, casing_a, freqs
    built,      \* "new", "ok", or the exception __init__ raised
    cache,      \* the instance's memoised private attributes
    nAssemble,  \* how many times the body of s_e assembled a vector
    nBuild,     \* how many times the body of srcList built a list
    assigned,   \* the signed assignments of the latest assembly, in order
    ret         \* outcome of the latest operation on the instance

vars == <<variant, physics, meshGenerator, cp, built, cache, nAssemble, nBuild, assigned, ret>>

\* ---------------------------------------------------------------- bounds
MaxReads == 3
MaxFreqs == 2

\* ------------------------------------------------------------- utilities
None == <<>>
Some(v) == <<v>>

RECURSIVE SumSeq(_, _)
SumSeq(s, n) == IF n = 0 THEN 0 ELSE s[n] + SumSeq(s, n - 1)

RECURSIVE MinSeq(_, _)
MinSeq(s, n) == IF n = 1 THEN s[1]
                ELSE LET m == MinSeq(s, n - 1) IN IF s[n] < m THEN s[n] ELSE m

\* h.min()
hmin(h) == MinSeq(h, Len(h))

Max2(a, b) == IF a >= b THEN a ELSE b
Min2(a, b) == IF a <= b THEN a ELSE b

\* ------------------------------------------------------------------ mesh
\* The two meshes the instances are built on: a cylindrically symmetric
\* mesh (one theta cell, no y faces) and a 3D tensor mesh.  Cell widths are
\* even so that cell centres are integers.
CylDims == [isSymmetric |-> TRUE, hx |-> <<2, 2, 2>>, hy |-> <<2>>,
            hz |-> <<2, 2, 2, 2>>, x0 |-> <<0, 0, -4>>]

TensorDims == [isSymmetric |-> FALSE, hx |-> <<2, 2>>, hy |-> <<4, 4>>,
               hz |-> <<2, 2, 2>>, x0 |-> <<0, -4, -2>>]

Nodes(h, o) == [i \in 1..(Len(h) + 1) |-> o + SumSeq(h, i - 1)]
Centers(h, o) == [i \in 1..Len(h) |-> o + SumSeq(h, i - 1) + (h[i] \div 2)]

\* ndgrid with the first axis running fastest
ndgrid(xs, ys, zs) ==
    LET nx == Len(xs)
        ny == Len(ys)
    IN [n \in 1..(nx * ny * Len(zs)) |->
          << xs[((n - 1) % nx) + 1],
             ys[(((n - 1) \div nx) % ny) + 1],
             zs[((n - 1) \div (nx * ny)) + 1] >>]

\* node and cell-centre vectors of each axis
Nx(d) == Nodes(d.hx, d.x0[1])
Ny(d) == Nodes(d.hy, d.x0[2])
Nz(d) == Nodes(d.hz, d.x0[3])
CCx(d) == Centers(d.hx, d.x0[1])
CCy(d) == IF d.isSymmetric THEN <<0>> ELSE Centers(d.hy, d.x0[2])
CCz(d) == Centers(d.hz, d.x0[3])

\* the face grids of a mesh of dimensions d
FxOf(d) == IF d.isSymmetric THEN ndgrid(Tail(Nx(d)), <<0>>, CCz(d))
           ELSE ndgrid(Nx(d), CCy(d), CCz(d))
FyOf(d) == IF d.isSymmetric THEN <<>>
           ELSE ndgrid(CCx(d), Ny(d), CCz(d))
FzOf(d) == ndgrid(CCx(d), CCy(d), Nz(d))

\* width of the cell whose centre is c on an axis with widths h from o
WidthAt(h, o, c) ==
    LET cc == Centers(h, o)
    IN h[CHOOSE i \in 1..Len(h) : cc[i] = c]

\* face areas per axis.  On the cylindrical mesh the areas are in units of pi.
areaFx(d) == [i \in 1..Len(FxOf(d)) |->
                LET p == FxOf(d)[i]
                IN IF d.isSymmetric
                   THEN 2 * p[1] * WidthAt(d.hz, d.x0[3], p[3])
                   ELSE WidthAt(d.hy, d.x0[2], p[2]) * WidthAt(d.hz, d.x0[3], p[3])]
areaFy(d) == [i \in 1..Len(FyOf(d)) |->
                LET p == FyOf(d)[i]
                IN WidthAt(d.hx, d.x0[1], p[1]) * WidthAt(d.hz, d.x0[3], p[3])]
areaFz(d) == [i \in 1..Len(FzOf(d)) |->
                LET p == FzOf(d)[i]
                    w == WidthAt(d.hx, d.x0[1], p[1])
                IN IF d.isSymmetric
                   THEN (p[1] + (w \div 2)) * (p[1] + (w \div 2))
                        - (p[1] - (w \div 2)) * (p[1] - (w \div 2))
                   ELSE w * WidthAt(d.hy, d.x0[2], p[2])]

\* a sequence written out element by element
Tuple(f) ==
    CASE Len(f) = 0 -> <<>>
      [] OTHER -> [i \in 1..Len(f) |-> f[i]]

\* the mesh object: what meshGenerator.mesh exposes to the sources
MeshOf(d) ==
    [isSymmetric |-> d.isSymmetric, hx |-> d.hx, hy |-> d.hy, hz |-> d.hz,
     gridFx |-> Tuple(FxOf(d)), gridFy |-> Tuple(FyOf(d)), gridFz |-> Tuple(FzOf(d)),
     area |-> Tuple(areaFx(d) \o areaFy(d) \o areaFz(d))]

CylMesh == MeshOf(CylDims)
TensorMesh == MeshOf(TensorDims)
MeshGenerators == {"cyl", "tensor"}

\* BaseCasingSrc.mesh: self.meshGenerator.mesh
mesh == IF meshGenerator = "cyl" THEN CylMesh ELSE TensorMesh

\* mesh.gridFx, mesh.gridFy, mesh.gridFz, mesh.area, mesh.vnF
gridFx(m) == m.gridFx
gridFy(m) == m.gridFy
gridFz(m) == m.gridFz
area(m) == m.area
vnF(m) == <<Len(m.gridFx), Len(m.gridFy), Len(m.gridFz)>>

\* ------------------------------------------------------------ the inputs
Variants == {"HED", "VED", "DHT", "DHC", "TOP"}

\* endpoints between the face planes, and one on the plane x = 2 of x-faces
SrcPoints == {<<x, y, z>> : x \in {1, 3}, y \in {1, 2}, z \in {-2, 1}}
                 \cup {<<2, 1, 1>>}
CasingRadii == {0, 1, 2}
FreqLists == {[i \in 1..n |-> n + 1 - i] : n \in 0..MaxFreqs}

\* BaseCasingSrc.src_a, src_b, casing_a, freqs
src_a == cp.src_a
src_b == cp.src_b
casing_a == cp.casing_a
freqs == cp.freqs

EmptyCache ==
    [_s_e |-> None, _srcList |-> None, _surface_wire |-> None,
     _wire_in_borehole |-> None, _surface_electrode |-> None,
     _downhole_electrode |-> None, _tophole_electrode |-> None,
     _src_a_closest |-> None, _src_b_closest |-> None]

\* getattr(mesh, 'isSymmetric', False) is False
NotSymmetric == mesh.isSymmetric = FALSE

\* ------------------------------------------------- closest-face resolution
Dist2(p, q) == (p[1] - q[1]) * (p[1] - q[1]) + (p[2] - q[2]) * (p[2] - q[2])
               + (p[3] - q[3]) * (p[3] - q[3])

\* discretize.utils.closestPoints(mesh, pt, 'Fz') for one point: one index per
\* point, the argmin of the squared distance (numpy's argmin: the first one)
closestPoints(grid, pt) ==
    << CHOOSE i \in 1..Len(grid) :
          /\ \A j \in 1..Len(grid) : Dist2(grid[i], pt) <= Dist2(grid[j], pt)
          /\ \A j \in 1..(i - 1) : Dist2(grid[j], pt) > Dist2(grid[i], pt) >>

\* grid[idx, :]
Rows(grid, idx) == [k \in 1..Len(idx) |-> grid[idx[k]]]

\* mesh.gridFz[closestPoints(self.mesh, pt, 'Fz'), :]
ClosestRows(pt) == Rows(gridFz(mesh), closestPoints(gridFz(mesh), pt))

\* assert(len(src_a_closest) == 1), 'multiple source locs found'
ClosestUnique(pt) == Len(ClosestRows(pt)) = 1

\* DownHoleTerminatingSrc.src_a_closest, VerticalElectricDipole.src_a_closest
src_a_closest(c) ==
    IF c._src_a_closest = None
    THEN [c EXCEPT !._src_a_closest = Some(ClosestRows(src_a)[1])]
    ELSE c

\* DownHoleTerminatingSrc.src_b_closest, VerticalElectricDipole.src_b_closest
src_b_closest(c) ==
    IF c._src_b_closest = None
    THEN [c EXCEPT !._src_b_closest = Some(ClosestRows(src_b)[1])]
    ELSE c

\* ------------------------------------------------------- segment selectors
\* the y band conjoined on a mesh that is not symmetric:
\* (y > t - hy.min()/2) & (y < t + hy.min()/2)
YBandHalf(p, t) ==
    /\ 2 * p[2] > 2 * t - hmin(mesh.hy)
    /\ 2 * p[2] < 2 * t + hmin(mesh.hy)

\* the boolean array over the faces of grid g that the predicate of each
\* selector yields; ac and bc are the resolved closest faces

\* (mutant) the surface wire's x band taken from src_a to src_b as given
HED_surface_wire_sel_ordered(g, a, b) ==
    [i \in 1..Len(g) |->
        /\ g[i][1] <= b[1]
        /\ g[i][1] >= a[1]
        /\ 2 * g[i][3] > 2 * b[3] - hmin(mesh.hz)
        /\ 2 * g[i][3] < 2 * b[3] + hmin(mesh.hz)
        /\ (NotSymmetric => YBandHalf(g[i], b[2]))]

\* HorizontalElectricDipole.surface_wire, for the endpoints a = src_a, b = src_b
HED_surface_wire_sel(g, a, b) ==
    [i \in 1..Len(g) |->
        \* surface_wirex
        /\ g[i][1] <= Max2(a[1], b[1])
        /\ g[i][1] >= Min2(a[1], b[1])
        \* surface_wirez
        /\ 2 * g[i][3] > 2 * b[3] - hmin(mesh.hz)
        /\ 2 * g[i][3] < 2 * b[3] + hmin(mesh.hz)
        \* surface_wirey
        /\ (NotSymmetric => YBandHalf(g[i], b[2]))]

HED_surface_wire_mask(g) == HED_surface_wire_sel(g, src_a, src_b)

HED_surface_wire(c) ==
    IF c._surface_wire # None THEN c
    ELSE [c EXCEPT !._surface_wire = Some(HED_surface_wire_mask(gridFx(mesh)))]

\* VerticalElectricDipole.wire_in_borehole, DownHoleTerminatingSrc.wire_in_borehole
wire_in_borehole_mask(g, ac) ==
    [i \in 1..Len(g) |->
        \* wire_in_boreholex
        /\ 2 * g[i][1] < 2 * ac[1] + hmin(mesh.hx)
        /\ 2 * g[i][1] > 2 * ac[1] - hmin(mesh.hx)
        \* wire_in_boreholez
        /\ 2 * g[i][3] >= 2 * src_a[3] - hmin(mesh.hz)
        /\ 2 * g[i][3] < 2 * src_b[3] + 3 * hmin(mesh.hz)
        \* wire_in_boreholey
        /\ (NotSymmetric => YBandHalf(g[i], src_a[2]))]

wire_in_borehole_set(c) ==
    [c EXCEPT !._wire_in_borehole =
        Some(wire_in_borehole_mask(gridFz(mesh), c._src_a_closest[1]))]

wire_in_borehole(c) ==
    IF c._wire_in_borehole # None THEN c
    ELSE wire_in_borehole_set(src_a_closest(c))

\* DownHoleTerminatingSrc.surface_wire
DHT_surface_wire_mask(g, ac, bc) ==
    [i \in 1..Len(g) |->
        \* surface_wirex
        /\ g[i][1] <= Max2(ac[1], bc[1])
        /\ g[i][1] >= Min2(ac[1], bc[1])
        \* surface_wirez
        /\ g[i][3] > hmin(mesh.hz)
        /\ 4 * g[i][3] <= 7 * hmin(mesh.hz)
        \* surface_wirey
        /\ (NotSymmetric => YBandHalf(g[i], src_b[2]))]

DHT_surface_wire_set(c) ==
    [c EXCEPT !._surface_wire =
        Some(DHT_surface_wire_mask(gridFx(mesh), c._src_a_closest[1],
                                   c._src_b_closest[1]))]

DHT_surface_wire(c) ==
    IF c._surface_wire # None THEN c
    ELSE DHT_surface_wire_set(src_b_closest(src_a_closest(c)))

\* DownHoleTerminatingSrc.surface_electrode
surface_electrode_mask(g, bc) ==
    [i \in 1..Len(g) |->
        \* surface_electrodex
        /\ 2 * g[i][1] > 2 * bc[1] - hmin(mesh.hx)
        /\ 2 * g[i][1] < 2 * bc[1] + hmin(mesh.hx)
        \* surface_electrodez
        /\ g[i][3] >= src_b[3] - hmin(mesh.hz)
        /\ 4 * g[i][3] < 4 * src_b[3] + 7 * hmin(mesh.hz)
        \* surface_electrodey
        /\ (NotSymmetric => YBandHalf(g[i], src_b[2]))]

surface_electrode_set(c) ==
    [c EXCEPT !._surface_electrode =
        Some(surface_electrode_mask(gridFz(mesh), c._src_b_closest[1]))]

surface_electrode(c) ==
    IF c._surface_electrode # None THEN c
    ELSE surface_electrode_set(src_b_closest(c))

\* DownHoleCasingSrc.downhole_electrode
downhole_electrode_mask(g) ==
    [i \in 1..Len(g) |->
        \* downhole_electrode_indx
        /\ g[i][1] <= casing_a
        \* downhole_electrode_indz2
        /\ g[i][3] <= src_a[3]
        /\ g[i][3] > src_a[3] - hmin(mesh.hz)
        \* dowhhole_electrode_indy
        /\ (NotSymmetric => YBandHalf(g[i], src_a[2]))]

downhole_electrode(c) ==
    IF c._downhole_electrode # None THEN c
    ELSE [c EXCEPT !._downhole_electrode = Some(downhole_electrode_mask(gridFx(mesh)))]

\* (mutant) the tophole electrode's x band closed at casing_a and open at
\* casing_a + hx.min()
tophole_electrode_mask_lowerClosed(g) ==
    [i \in 1..Len(g) |->
        /\ g[i][1] < casing_a + hmin(mesh.hx)
        /\ g[i][1] >= casing_a
        /\ 2 * g[i][3] < 2 * src_a[3] + 3 * hmin(mesh.hz)
        /\ 2 * g[i][3] >= 2 * src_a[3] - hmin(mesh.hz)
        /\ (NotSymmetric => /\ g[i][2] > src_a[2] - hmin(mesh.hy)
                            /\ g[i][2] < src_a[2] + hmin(mesh.hy))]

\* TopCasingSrc.tophole_electrode (its y band is a whole hy.min() either side)
tophole_electrode_mask(g) ==
    [i \in 1..Len(g) |->
        \* tophole_electrodex
        /\ g[i][1] <= casing_a + hmin(mesh.hx)
        /\ g[i][1] > casing_a
        \* tophole_electrodez
        /\ 2 * g[i][3] < 2 * src_a[3] + 3 * hmin(mesh.hz)
        /\ 2 * g[i][3] >= 2 * src_a[3] - hmin(mesh.hz)
        \* tophole_electrodey
        /\ (NotSymmetric => /\ g[i][2] > src_a[2] - hmin(mesh.hy)
                            /\ g[i][2] < src_a[2] + hmin(mesh.hy))]

tophole_electrode(c) ==
    IF c._tophole_electrode # None THEN c
    ELSE [c EXCEPT !._tophole_electrode = Some(tophole_electrode_mask(gridFz(mesh)))]

\* TopCasingSrc.surface_wire
TOP_surface_wire_mask(g, bc) ==
    [i \in 1..Len(g) |->
        \* surface_wirex
        /\ g[i][1] <= bc[1]
        /\ 2 * g[i][1] > 2 * casing_a + hmin(mesh.hx)
        \* surface_wirez
        /\ g[i][3] > src_b[3] + hmin(mesh.hz)
        /\ 4 * g[i][3] <= 4 * src_b[3] + 7 * hmin(mesh.hz)
        \* surface_wirey
        /\ (NotSymmetric => YBandHalf(g[i], src_b[2]))]

TOP_surface_wire_set(c) ==
    [c EXCEPT !._surface_wire =
        Some(TOP_surface_wire_mask(gridFx(mesh), c._src_b_closest[1]))]

TOP_surface_wire(c) ==
    IF c._surface_wire # None THEN c
    ELSE TOP_surface_wire_set(src_b_closest(c))

\* self.surface_wire, resolved on the class of the instance
surface_wire(c) ==
    CASE variant = "HED" -> HED_surface_wire(c)
      [] variant \in {"DHT", "DHC"} -> DHT_surface_wire(c)
      [] variant = "TOP" -> TOP_surface_wire(c)
      [] OTHER -> c

\* reading the property `role` of the instance: the cache afterwards
Access(c, role) ==
    CASE role = "surface_wire" -> surface_wire(c)
      [] role = "wire_in_borehole" -> wire_in_borehole(c)
      [] role = "surface_electrode" -> surface_electrode(c)
      [] role = "downhole_electrode" -> downhole_electrode(c)
      [] role = "tophole_electrode" -> tophole_electrode(c)

\* the private attribute a mask property memoises in
Attr(c, role) ==
    CASE role = "surface_wire" -> c._surface_wire
      [] role = "wire_in_borehole" -> c._wire_in_borehole
      [] role = "surface_electrode" -> c._surface_electrode
      [] role = "downhole_electrode" -> c._downhole_electrode
      [] role = "tophole_electrode" -> c._tophole_electrode

\* the face grid a segment's mask indexes
GridOf(axis) == IF axis = "x" THEN gridFx(mesh) ELSE gridFz(mesh)

\* --------------------------------------------------------------- assembly
\* (mutant) the direction test written with <= instead of <
surface_wire_direction_le == IF src_a[1] <= src_b[1] THEN -1 ELSE 1

\* HorizontalElectricDipole.surface_wire_direction,
\* DownHoleTerminatingSrc.surface_wire_direction
surface_wire_direction == IF src_a[1] < src_b[1] THEN -1 ELSE 1

Seg(role, axis, sign) == [role |-> role, axis |-> axis, sign |-> sign]

\* the signed assignments of each class's s_e, in the order of its statements
HED_segments == << Seg("surface_wire", "x", surface_wire_direction) >>
VED_segments == << Seg("wire_in_borehole", "z", -1) >>
DHT_segments == << Seg("wire_in_borehole", "z", -1),
                   Seg("surface_wire", "x", surface_wire_direction),
                   Seg("surface_electrode", "z", 1) >>
\* (mutant) DownHoleCasingSrc keeping the endpoint-dependent surface-wire sign
DHC_segments_inherited ==
    << Seg("wire_in_borehole", "z", -1),
       Seg("downhole_electrode", "x", 1),
       Seg("surface_wire", "x", IF src_a[1] < src_b[1] THEN -1 ELSE 1),
       Seg("surface_electrode", "z", 1) >>
DHC_segments == << Seg("wire_in_borehole", "z", -1),
                   Seg("downhole_electrode", "x", 1),
                   Seg("surface_wire", "x", -1),
                   Seg("surface_electrode", "z", 1) >>
TOP_segments == << Seg("tophole_electrode", "z", -1),
                   Seg("surface_wire", "x", -1),
                   Seg("surface_electrode", "z", 1) >>

Segments(v) ==
    CASE v = "HED" -> HED_segments
      [] v = "VED" -> VED_segments
      [] v = "DHT" -> DHT_segments
      [] v = "DHC" -> DHC_segments
      [] v = "TOP" -> TOP_segments

\* np.zeros(n)
zeros(n) == [i \in 1..n |-> 0]

\* (mutant) arr[mask] += value
Assign_add(arr, mask, value) ==
    [i \in 1..Len(arr) |-> IF mask[i] THEN arr[i] + value ELSE arr[i]]

\* arr[mask] = value
Assign(arr, mask, value) ==
    [i \in 1..Len(arr) |-> IF mask[i] THEN value ELSE arr[i]]

\* one assignment statement of s_e: s_<axis>[self.<role>] = sign, where c2 is
\* the cache after the property <role> was read
AssignSeg(acc, seg, c2) ==
    [c |-> c2,
     s_x |-> IF seg.axis = "x"
             THEN Assign(acc.s_x, Attr(c2, seg.role)[1], seg.sign) ELSE acc.s_x,
     s_y |-> acc.s_y,
     s_z |-> IF seg.axis = "z"
             THEN Assign(acc.s_z, Attr(c2, seg.role)[1], seg.sign) ELSE acc.s_z]

\* the assignment statements of s_e, one after the other: acc holds the
\* cache and the three arrays
RECURSIVE AssignAll(_, _, _)
AssignAll(acc, segs, k) ==
    IF k > Len(segs) THEN acc
    ELSE AssignAll(AssignSeg(acc, segs[k], Access(acc.c, segs[k].role)), segs, k + 1)

\* (mutant) the blocks concatenated in the order z, y, x
hstack_zyx(s_x, s_y, s_z) == s_z \o s_y \o s_x

\* np.hstack([s_x, s_y, s_z])
hstack(s_x, s_y, s_z) == s_x \o s_y \o s_z

RECURSIVE GCD(_, _)
GCD(a, b) == IF b = 0 THEN a ELSE GCD(b, a % b)

Abs(n) == IF n < 0 THEN -n ELSE n

\* the quotient n / d (d > 0) as a fraction in lowest terms
Frac(n, d) == << n \div GCD(Abs(n), d), d \div GCD(Abs(n), d) >>
Zero == << 0, 1 >>

\* s_e / self.mesh.area, element by element
Divide(s, a) == [i \in 1..Len(s) |-> Frac(s[i], a[i])]

\* which private attribute guards the body of s_e: HED and VED test _s_e,
\* the three down-hole classes test _srcList
SeGuardIsNone(c) ==
    IF variant \in {"HED", "VED"} THEN c._s_e = None ELSE c._srcList = None

\* the closest-face assertions reached from the segments of s_e
ClosestOK(v) ==
    CASE v = "HED" -> TRUE
      [] v = "VED" -> ClosestUnique(src_a)
      [] v \in {"DHT", "DHC"} -> ClosestUnique(src_a) /\ ClosestUnique(src_b)
      [] v = "TOP" -> ClosestUnique(src_b)

Outcome(kind, msg, vec, list) ==
    [kind |-> kind, msg |-> msg, vec |-> vec, list |-> list]

\* self._s_e = s_e/self.mesh.area; return self._s_e
StoreSE(st, c, vec) ==
    [st |-> [cache |-> [c EXCEPT !._s_e = Some(vec)],
             nAssemble |-> st.nAssemble + 1,
             assigned |-> Segments(variant)],
     out |-> Outcome("ok", "", vec, <<>>)]

\* s_e = np.hstack([s_x, s_y, s_z]); ... s_e/self.mesh.area
Assembled(st, acc) ==
    StoreSE(st, acc.c, Divide(hstack(acc.s_x, acc.s_y, acc.s_z), area(mesh)))

\* the body of s_e under its guard: zero arrays, signed assignments,
\* concatenation, division by the face areas
Assemble(st) ==
    Assembled(st, AssignAll([c |-> st.cache,
                             s_x |-> zeros(vnF(mesh)[1]),
                             s_y |-> zeros(vnF(mesh)[2]),
                             s_z |-> zeros(vnF(mesh)[3])],
                            Segments(variant), 1))

\* ------------------------------------------------------------- validators
Chk(role, axis, col, msg) == [role |-> role, axis |-> axis, col |-> col, msg |-> msg]

\* HorizontalElectricDipole._check_wire
HED_check_wire ==
    << Chk("surface_wire", "x", 2, "the surface wire has more than one y-location"),
       Chk("surface_wire", "x", 3, "the surface wire has more than one z-location") >>

\* VerticalElectricDipole._check_wire
VED_check_wire ==
    << Chk("wire_in_borehole", "z", 1, "the wire in borehole has more than one x-location"),
       Chk("wire_in_borehole", "z", 2, "the wire in borehole has more than one y-location") >>

\* DownHoleTerminatingSrc._check_wire
DHT_check_wire ==
    << Chk("surface_electrode", "z", 1, "the surface electrode has more than one x-location"),
       Chk("surface_electrode", "z", 2, "the surface electrode has more than one y-location"),
       Chk("surface_wire", "x", 2, "the surface wire has more than one y-location"),
       Chk("surface_wire", "x", 3, "the surface wire has more than one z-location"),
       Chk("wire_in_borehole", "z", 1, "the wire in borehole has more than one x-location"),
       Chk("wire_in_borehole", "z", 2, "the wire in borehole has more than one y-location") >>

\* DownHoleCasingSrc._check_wire_more
DHC_check_wire_more ==
    << Chk("downhole_electrode", "x", 2, "the downhole electrode has more than one y-location"),
       Chk("downhole_electrode", "x", 3, "the downhole electrode has more than one z-location") >>

\* (mutant) TopCasingSrc left with the checks it inherits
TOP_check_wire_inherited ==
    << Chk("surface_electrode", "z", 1, "the surface electrode has more than one x-location"),
       Chk("surface_electrode", "z", 2, "the surface electrode has more than one y-location"),
       Chk("surface_wire", "x", 2, "the surface wire has more than one y-location"),
       Chk("surface_wire", "x", 3, "the surface wire has more than one z-location"),
       Chk("wire_in_borehole", "z", 1, "the wire in borehole has more than one x-location"),
       Chk("wire_in_borehole", "z", 2, "the wire in borehole has more than one y-location") >>

\* TopCasingSrc._check_wire
TOP_check_wire ==
    << Chk("surface_electrode", "z", 1, "the surface electrode has more than one x-location"),
       Chk("surface_electrode", "z", 2, "the surface electrode has more than one y-location"),
       Chk("tophole_electrode", "z", 1, "the tophole electrode has more than one x-location"),
       Chk("tophole_electrode", "z", 2, "the tophole electrode has more than one y-location"),
       Chk("surface_wire", "x", 2, "the surface wire has more than one y-location"),
       Chk("surface_wire", "x", 3, "the surface wire has more than one z-location") >>

\* The class validators of each class, as the sequences of assertions a run
\* of them can make.  DownHoleCasingSrc has two validators (_check_wire,
\* inherited, and _check_wire_more); the registry does not fix their order.
ValidatorRuns(v) ==
    CASE v = "HED" -> { HED_check_wire }
      [] v = "VED" -> { VED_check_wire }
      [] v = "DHT" -> { DHT_check_wire }
      [] v = "DHC" -> { DHT_check_wire \o DHC_check_wire_more,
                        DHC_check_wire_more \o DHT_check_wire }
      [] v = "TOP" -> { TOP_check_wire }

\* the values column `col` takes on the faces a mask selects
Locations(mask, axis, col) ==
    { GridOf(axis)[i][col] : i \in { j \in 1..Len(mask) : mask[j] } }

\* (mutant) the assertion passing on a segment with no face at all
SingleLocation_atMostOne(vals) == Cardinality(vals) <= 1

\* len(np.unique(values)) == 1
SingleLocation(vals) == Cardinality(vals) = 1

\* the assertions of a validator run, one after the other, up to the first
\* one that fails
RECURSIVE RunChecks(_, _, _)
\* the assertion chk, made on the cache c2 the read of its property left
RunCheck(c2, checks, k) ==
    IF SingleLocation(Locations(Attr(c2, checks[k].role)[1], checks[k].axis,
                                checks[k].col))
    THEN RunChecks(c2, checks, k + 1)
    ELSE [cache |-> c2,
          out |-> Outcome("AssertionError", checks[k].msg, <<>>, <<>>)]
RunChecks(c, checks, k) ==
    IF k > Len(checks) THEN [cache |-> c, out |-> Outcome("ok", "", <<>>, <<>>)]
    ELSE RunCheck(Access(c, checks[k].role), checks, k)

\* one run of the class validators on the cache c
RunValidators(c, checks) ==
    IF ClosestOK(variant) THEN RunChecks(c, checks, 1)
    ELSE [cache |-> c,
          out |-> Outcome("AssertionError", "multiple source locs found", <<>>, <<>>)]

\* (mutant) s_e as a read that runs the class validators before assembling
s_e_validating(st) ==
    IF SeGuardIsNone(st.cache)
    THEN IF RunValidators(st.cache, CHOOSE run \in ValidatorRuns(variant) : TRUE).out.kind # "ok"
         THEN [st |-> st,
               out |-> RunValidators(st.cache,
                                     CHOOSE run \in ValidatorRuns(variant) : TRUE).out]
         ELSE Assemble(st)
    ELSE IF st.cache._s_e = None
         THEN [st |-> st,
               out |-> Outcome("AttributeError", "_s_e", <<>>, <<>>)]
         ELSE [st |-> st, out |-> Outcome("ok", "", st.cache._s_e[1], <<>>)]

\* The property s_e read on the instance st = [cache, nAssemble, assigned]:
\* the instance afterwards and what the read returned or raised.
s_e(st) ==
    IF SeGuardIsNone(st.cache)
    THEN IF ~ClosestOK(variant)
         THEN [st |-> st,
               out |-> Outcome("AssertionError", "multiple source locs found", <<>>, <<>>)]
         ELSE Assemble(st)
    ELSE IF st.cache._s_e = None
         THEN [st |-> st,
               out |-> Outcome("AttributeError", "_s_e", <<>>, <<>>)]
         ELSE [st |-> st, out |-> Outcome("ok", "", st.cache._s_e[1], <<>>)]

\* s_e.astype("complex")
astype_complex(vec) == [i \in 1..Len(vec) |-> << vec[i], Zero >>]

\* FDEM.Src.RawVec_e([], freq, s_e), TDEM.Src.RawVec_Grounded([], s_e)
RawVec_e(freq, vec) ==
    [cls |-> "FDEM.Src.RawVec_e", rxList |-> <<>>, freq |-> <<freq>>, s_e |-> vec]
RawVec_Grounded(vec) ==
    [cls |-> "TDEM.Src.RawVec_Grounded", rxList |-> <<>>, freq |-> <<>>, s_e |-> vec]

\* [FDEM.Src.RawVec_e([], _, self.s_e.astype("complex")) for _ in self.freqs]:
\* s_e is read once per frequency; r is what the read for freqs[k] gave
RECURSIVE FdemList(_, _, _)
FdemNext(r, list, k) ==
    IF r.out.kind # "ok" THEN r
    ELSE FdemList(r.st, Append(list, RawVec_e(freqs[k], astype_complex(r.out.vec))),
                  k + 1)
FdemList(st, list, k) ==
    IF k > Len(freqs) THEN [st |-> st, out |-> Outcome("ok", "", <<>>, list)]
    ELSE FdemNext(s_e(st), list, k)

\* [TDEM.Src.RawVec_Grounded([], self.s_e)]
TdemList(r) ==
    IF r.out.kind # "ok" THEN r
    ELSE [st |-> r.st,
          out |-> Outcome("ok", "", <<>>, << RawVec_Grounded(r.out.vec) >>)]

\* the list the body of srcList builds
BuildSrcList(st) ==
    IF physics = "FDEM" THEN FdemList(st, <<>>, 1) ELSE TdemList(s_e(st))

\* (mutant) the list is returned without being stored in _srcList
StoreSrcList_uncached(r, n) ==
    IF r.out.kind # "ok" THEN [st |-> r.st, n |-> n, out |-> r.out]
    ELSE [st |-> r.st, n |-> n + 1, out |-> r.out]

\* self._srcList = srcList
StoreSrcList(r, n) ==
    IF r.out.kind # "ok" THEN [st |-> r.st, n |-> n, out |-> r.out]
    ELSE [st |-> [r.st EXCEPT !.cache._srcList = Some(r.out.list)],
          n |-> n + 1,
          out |-> r.out]

\* The property srcList read on the instance st (with nBuild).
srcList(st, n) ==
    IF st.cache._srcList = None
    THEN StoreSrcList(BuildSrcList(st), n)
    ELSE [st |-> st, n |-> n,
          out |-> Outcome("ok", "", <<>>, st.cache._srcList[1])]

\* ----------------------------------------------------------- construction
\* BaseCasingSrc.__init__
BaseInit ==
    IF src_a[2] = src_b[2] THEN Outcome("ok", "", <<>>, <<>>)
    ELSE Outcome("AssertionError",
                 "non y-axis aligned sources have not been implemented", <<>>, <<>>)

\* HorizontalElectricDipole.__init__
HEDInit ==
    IF BaseInit.kind # "ok" THEN BaseInit
    ELSE IF src_a[3] = src_b[3] THEN Outcome("ok", "", <<>>, <<>>)
    ELSE Outcome("AssertionError", "z locations must be the same for a HED", <<>>, <<>>)

\* VerticalElectricDipole.__init__: its first statement reads the name cp,
\* which is bound neither in the method nor in the module
VEDInit == Outcome("NameError", "name 'cp' is not defined", <<>>, <<>>)

InitOutcome(v) ==
    CASE v = "HED" -> HEDInit
      [] v = "VED" -> VEDInit
      [] OTHER -> BaseInit

\* ------------------------------------------------------------ the machine
\* ret.hit: the read found its guard attribute set and skipped the body
NoRet == [op |-> "none", hit |-> FALSE, kind |-> "ok", msg |-> "", vec |-> <<>>,
          list |-> <<>>]

Ret(op, hit, out) ==
    [op |-> op, hit |-> hit, kind |-> out.kind, msg |-> out.msg, vec |-> out.vec,
     list |-> out.list]

Init ==
    /\ variant \in Variants
    /\ physics \in {"FDEM", "TDEM"}
    /\ meshGenerator \in MeshGenerators
    /\ cp \in [src_a : SrcPoints, src_b : SrcPoints, casing_a : CasingRadii,
               freqs : FreqLists]
    /\ physics = "TDEM" => cp.freqs = <<>>
    \* casing_a is read by the selectors of DownHoleCasingSrc and TopCasingSrc
    \* alone; the other classes take one value of it
    /\ variant \in {"HED", "VED", "DHT"} => cp.casing_a = 0
    /\ built = "new"
    /\ cache = EmptyCache
    /\ nAssemble = 0
    /\ nBuild = 0
    /\ assigned = <<>>
    /\ ret = NoRet

Self == [cache |-> cache, nAssemble |-> nAssemble, assigned |-> assigned]

\* cls(cp=..., meshGenerator=..., physics=...)
Constructed(out) ==
    /\ built' = out.kind
    /\ ret' = Ret("init", FALSE, out)

Construct ==
    /\ built = "new"
    /\ Constructed(InitOutcome(variant))
    /\ UNCHANGED <<variant, physics, meshGenerator, cp, cache, nAssemble, nBuild, assigned>>

\* the instance and the outcome a read left
Returned(op, hit, r) ==
    /\ cache' = r.st.cache
    /\ nAssemble' = r.st.nAssemble
    /\ assigned' = r.st.assigned
    /\ ret' = Ret(op, hit, r.out)

\* instance.s_e
ReadSE ==
    /\ built = "ok"
    /\ nAssemble < MaxReads
    /\ Returned("s_e", ~SeGuardIsNone(cache), s_e(Self))
    /\ UNCHANGED <<variant, physics, meshGenerator, cp, built, nBuild>>

ReturnedList(r) ==
    /\ Returned("srcList", cache._srcList # None, r)
    /\ nBuild' = r.n

\* instance.srcList
ReadSrcList ==
    /\ built = "ok"
    /\ ReturnedList(srcList(Self, nBuild))
    /\ UNCHANGED <<variant, physics, meshGenerator, cp, built>>

Validated(r) ==
    /\ cache' = r.cache
    /\ ret' = Ret("validate", FALSE, r.out)

\* instance.validate(): the class validators
Validate ==
    /\ built = "ok"
    /\ \E checks \in ValidatorRuns(variant) : Validated(RunValidators(cache, checks))
    /\ UNCHANGED <<variant, physics, meshGenerator, cp, built, nAssemble, nBuild, assigned>>

Next == Construct \/ ReadSE \/ ReadSrcList \/ Validate

Spec == Init /\ [][Next]_vars

\* ======================================================================
\* Properties
\* ======================================================================
\* the axes transverse to a segment: columns y, z of an x-directed segment,
\* x, y of a z-directed one
TransverseCols(axis) == IF axis = "x" THEN {2, 3} ELSE {1, 2}

\* the mask the selector of `role` yields on this instance, computed afresh
PureMask(role) == Attr(Access(EmptyCache, role), role)[1]

\* the faces of the segment take more than one value on a transverse axis
NonUniqueOn(mask, axis) ==
    \E col \in TransverseCols(axis) : Cardinality(Locations(mask, axis, col)) > 1

NonUnique(seg) == NonUniqueOn(PureMask(seg.role), seg.axis)

AnyNonUnique ==
    \E k \in 1..Len(Segments(variant)) : NonUnique(Segments(variant)[k])

NFaces == vnF(mesh)[1] + vnF(mesh)[2] + vnF(mesh)[3]

\* the offset of an axis's block in s_e
Offset(axis) == IF axis = "x" THEN 0 ELSE vnF(mesh)[1] + vnF(mesh)[2]

\* the segments of the variant whose cached mask selects face i of `axis`
Covering(axis, i) ==
    { k \in 1..Len(Segments(variant)) :
        /\ Segments(variant)[k].axis = axis
        /\ Attr(cache, Segments(variant)[k].role)[1][i] }

SetMax(S) == CHOOSE m \in S : \A n \in S : n <= m

RECURSIVE SumSigns(_, _)
SumSigns(segs, n) == IF n = 0 THEN 0 ELSE segs[n].sign + SumSigns(segs, n - 1)

SeReturned == ret.op = "s_e" /\ ret.kind = "ok"

C2_AssembledAtMostOnce == nAssemble <= 1

\* C3 (as stated): the signed unit currents assigned by s_e sum to zero, for
\* every topology and every pair of endpoints.
C3_Conservation ==
    assigned # <<>> => SumSigns(assigned, Len(assigned)) = 0

\* C3 (amended): the signed unit currents assigned by s_e sum to zero for
\* DownHoleCasingSrc only; for HorizontalElectricDipole and
\* DownHoleTerminatingSrc the sum is the surface-wire direction (-1 when
\* src_a.x < src_b.x, else +1), for VerticalElectricDipole and TopCasingSrc -1.
C3_SignSum ==
    assigned # <<>> =>
        SumSigns(assigned, Len(assigned)) =
            CASE variant = "DHC" -> 0
              [] variant \in {"HED", "DHT"} ->
                    (IF cp.src_a[1] < cp.src_b[1] THEN -1 ELSE 1)
              [] variant \in {"VED", "TOP"} -> -1

C3_Witness ==
    /\ variant = "DHC" /\ ret.op = "s_e" /\ Len(assigned) = 4
    /\ SumSigns(assigned, Len(assigned)) = 0

\* C4: s_e has length |Fx|+|Fy|+|Fz|, laid out x block, y block, z block; an
\* entry is nonzero only where a segment mask of the variant selects that
\* face on that axis, and the whole y block is zero.
C4_Support ==
    SeReturned =>
        /\ Len(ret.vec) = NFaces
        /\ \A i \in 1..vnF(mesh)[1] :
              ret.vec[i] # Zero => Covering("x", i) # {}
        /\ \A i \in 1..vnF(mesh)[2] : ret.vec[vnF(mesh)[1] + i] = Zero
        /\ \A i \in 1..vnF(mesh)[3] :
              ret.vec[Offset("z") + i] # Zero => Covering("z", i) # {}

C4_Witness ==
    /\ SeReturned /\ meshGenerator = "tensor"
    /\ \E i \in 1..vnF(mesh)[1] : ret.vec[i] # Zero
    /\ \E i \in 1..vnF(mesh)[3] : ret.vec[Offset("z") + i] # Zero
    /\ \E i \in 1..vnF(mesh)[3] : ret.vec[Offset("z") + i] = Zero

\* C5: on every face a segment selects, s_e is sign / area, with the sign of
\* the segment assigned last among those whose mask holds the face;
\* overlapping segments are not summed.
C5_Normalization ==
    SeReturned =>
        \A axis \in {"x", "z"} : \A i \in 1..Len(GridOf(axis)) :
            Covering(axis, i) # {} =>
                /\ ret.vec[Offset(axis) + i][2] > 0
                /\ ret.vec[Offset(axis) + i][1] * area(mesh)[Offset(axis) + i]
                     = Segments(variant)[SetMax(Covering(axis, i))].sign
                          * ret.vec[Offset(axis) + i][2]

\* a z-face in both the borehole wire and the surface electrode of a
\* DownHoleTerminatingSrc, carrying +1/area
C5_Witness ==
    /\ SeReturned /\ variant = "DHT"
    /\ \E i \in 1..vnF(mesh)[3] :
         /\ Covering("z", i) = {1, 3}
         /\ ret.vec[Offset("z") + i] = << 1, area(mesh)[Offset("z") + i] >>

\* the endpoints are not aligned as the topology requires
Misaligned ==
    \/ cp.src_a[2] # cp.src_b[2]
    \/ variant = "HED" /\ cp.src_a[3] # cp.src_b[3]
    \/ variant = "VED" /\ (cp.src_a[1] # cp.src_b[1] \/ cp.src_a[2] # cp.src_b[2])

\* C6 (as stated): construction with misaligned endpoints fails with the
\* unsupported-orientation assertion, for every variant.
C6_MisalignedRejected ==
    (built # "new" /\ Misaligned) =>
        /\ built = "AssertionError"
        /\ ret.msg \in {"non y-axis aligned sources have not been implemented",
                        "z locations must be the same for a HED",
                        "src_a and src_b must have the same horizontal location"}

\* C7 (as stated): construction succeeds whenever the endpoints satisfy the
\* topology's alignment requirement.
C7_AlignedConstructs ==
    (built # "new" /\ ~Misaligned) => built = "ok"

\* C8: srcList holds, in FDEM mode, one RawVec_e per entry of freqs, in the
\* order of freqs, each with that frequency and the instance's s_e (as
\* complex); in TDEM mode one RawVec_Grounded with s_e.  It is built once
\* and a later read returns the stored list.
C8_SrcList ==
    /\ nBuild <= 1
    /\ (ret.op = "srcList" /\ ret.kind = "ok") =>
          /\ nBuild = 1
          /\ cache._srcList = << ret.list >>
          /\ IF physics = "FDEM"
             THEN /\ Len(ret.list) = Len(cp.freqs)
                  /\ \A k \in 1..Len(ret.list) :
                        /\ ret.list[k].cls = "FDEM.Src.RawVec_e"
                        /\ ret.list[k].freq = << cp.freqs[k] >>
                        /\ Len(ret.list[k].s_e) = NFaces
                        /\ \A i \in 1..NFaces :
                              ret.list[k].s_e[i] = << cache._s_e[1][i], << 0, 1 >> >>
             ELSE /\ Len(ret.list) = 1
                  /\ ret.list[1].cls = "TDEM.Src.RawVec_Grounded"
                  /\ ret.list[1].s_e = cache._s_e[1]

\* a second read of the list of a two-frequency FDEM source
C8_Witness ==
    /\ ret.op = "srcList" /\ ret.hit /\ physics = "FDEM"
    /\ Len(ret.list) = 2 /\ ret.list[1].freq # ret.list[2].freq

\* every segment of s_e has both its transverse columns asserted on, in
\* every run of the class validators
AllSegmentsChecked ==
    \A run \in ValidatorRuns(variant) :
        \A k \in 1..Len(Segments(variant)) :
            \A col \in TransverseCols(Segments(variant)[k].axis) :
                \E j \in 1..Len(run) :
                    /\ run[j].role = Segments(variant)[k].role
                    /\ run[j].axis = Segments(variant)[k].axis
                    /\ run[j].col = col

Roles == {"surface_wire", "wire_in_borehole", "surface_electrode",
          "downhole_electrode", "tophole_electrode"}

\* C9: validate() fails whenever a segment of the variant takes more than one
\* value on a transverse axis; the validators cover every segment s_e
\* assigns; and a cached mask is always the mask its selector yields.
C9_Validator ==
    /\ (ret.op = "validate" /\ AnyNonUnique) =>
          (ret.kind = "AssertionError" /\ ret.vec = <<>> /\ ret.list = <<>>)
    /\ built = "ok" => AllSegmentsChecked
    /\ \A role \in Roles :
          Attr(cache, role) # None => Attr(cache, role)[1] = PureMask(role)

C9_Witness ==
    /\ ret.op = "validate" /\ AnyNonUnique
    /\ ret.msg = "the tophole electrode has more than one y-location"

\* C10: the surface wire is assigned -1 when src_a.x < src_b.x and +1
\* otherwise in HorizontalElectricDipole and DownHoleTerminatingSrc, and -1
\* whatever the endpoints in DownHoleCasingSrc and TopCasingSrc.
C10_SurfaceWireSign ==
    \A k \in 1..Len(assigned) :
        assigned[k].role = "surface_wire" =>
            assigned[k].sign =
                IF variant \in {"HED", "DHT"}
                THEN (IF cp.src_a[1] < cp.src_b[1] THEN -1 ELSE 1)
                ELSE -1

C10_Witness ==
    /\ variant = "DHC" /\ cp.src_a[1] > cp.src_b[1]
    /\ \E k \in 1..Len(assigned) :
          assigned[k].role = "surface_wire" /\ assigned[k].sign = -1
    /\ \E i \in 1..vnF(mesh)[1] :
          cache._surface_wire[1][i] /\ SeReturned /\ ret.vec[i][1] = -1

\* ----------------------------------------------------------------- C11
\* the faces of the z-face grid inside the depth band of the tophole
\* electrode, [src_a.z - hz_min/2, src_a.z + 3 hz_min/2)
TopholeDepthBand(p) ==
    /\ 2 * p[3] >= 2 * src_a[3] - hmin(mesh.hz)
    /\ 2 * p[3] < 2 * src_a[3] + 3 * hmin(mesh.hz)

\* casing_a < x <= casing_a + hx_min
TopholeXBand(p) == p[1] > casing_a /\ p[1] <= casing_a + hmin(mesh.hx)

\* |y - src_a.y| < hy_min
TopholeYBand(p) ==
    p[2] > src_a[2] - hmin(mesh.hy) /\ p[2] < src_a[2] + hmin(mesh.hy)

TopholeCached == variant = "TOP" /\ built = "ok" /\ cache._tophole_electrode # None

\* C11 (as stated): the tophole electrode of TopCasingSrc selects, among the
\* z-faces inside its depth band, exactly those with
\* casing_a < x <= casing_a + hx_min.
C11_TopholeXBand ==
    TopholeCached =>
        \A i \in 1..Len(gridFz(mesh)) :
            TopholeDepthBand(gridFz(mesh)[i]) =>
                (cache._tophole_electrode[1][i] <=> TopholeXBand(gridFz(mesh)[i]))

\* C11 (amended): the tophole electrode selects exactly the z-faces inside its
\* depth band, inside its y band |y - src_a.y| < hy_min when the mesh is not
\* symmetric, and with casing_a < x <= casing_a + hx_min: a face at
\* x = casing_a is never selected, and one at x = casing_a + hx_min inside the
\* other bands always is.
C11_TopholeXBandInYBand ==
    TopholeCached =>
        \A i \in 1..Len(gridFz(mesh)) :
            /\ cache._tophole_electrode[1][i] <=>
                  /\ TopholeDepthBand(gridFz(mesh)[i])
                  /\ TopholeXBand(gridFz(mesh)[i])
                  /\ (NotSymmetric => TopholeYBand(gridFz(mesh)[i]))
            /\ gridFz(mesh)[i][1] = casing_a => ~cache._tophole_electrode[1][i]

\* a face at x = casing_a inside the other bands is left out and one at
\* x = casing_a + hx_min is selected
C11_Witness ==
    /\ TopholeCached
    /\ \E i, j \in 1..Len(gridFz(mesh)) :
          /\ gridFz(mesh)[i][1] = casing_a
          /\ TopholeDepthBand(gridFz(mesh)[i])
          /\ (NotSymmetric => TopholeYBand(gridFz(mesh)[i]))
          /\ ~cache._tophole_electrode[1][i]
          /\ gridFz(mesh)[j][1] = casing_a + hmin(mesh.hx)
          /\ cache._tophole_electrode[1][j]

\* ----------------------------------------------------------------- C12
\* the z-faces at the minimum distance from the point pt
NearestFaces(pt) ==
    { i \in 1..Len(gridFz(mesh)) :
        \A j \in 1..Len(gridFz(mesh)) :
            Dist2(gridFz(mesh)[i], pt) <= Dist2(gridFz(mesh)[j], pt) }

Ambiguous(pt) == Cardinality(NearestFaces(pt)) > 1

\* C12 (as stated): the resolution of the z-face closest to an endpoint
\* fails with the ambiguous-closest-face error whenever more than one z-face
\* is at the minimum distance from the endpoint; the coordinates of a face
\* are returned (and cached) only when the nearest face is unique.
C12_AmbiguousClosestRejected ==
    /\ cache._src_a_closest # None => ~Ambiguous(src_a)
    /\ cache._src_b_closest # None => ~Ambiguous(src_b)
    /\ (/\ ret.op \in {"s_e", "srcList", "validate"}
        /\ ret.hit = FALSE
        /\ variant \in {"DHT", "DHC"}
        /\ Ambiguous(src_a) \/ Ambiguous(src_b))
            => (ret.kind = "AssertionError" /\ ret.msg = "multiple source locs found")

\* ----------------------------------------------------------------- C13
\* the face grid the mask of `role` indexes: x-faces for the horizontal
\* segments, z-faces for the vertical ones
RoleGrid(role) ==
    IF role \in {"surface_wire", "downhole_electrode"}
    THEN gridFx(mesh) ELSE gridFz(mesh)

\* faces p and q differ in y alone
SameXZ(p, q) == p[1] = q[1] /\ p[3] = q[3]

\* the y of the endpoint a segment is laid along (a constructed instance has
\* src_a.y = src_b.y)
TargetY == src_a[2]

\* C13 (as stated): on a mesh that is not symmetric the mask of every segment
\* of every variant is conjoined with the y band |y - target_y| < hy_min / 2:
\* a selected face lies in the band, and of the faces that differ only in y
\* from a selected one exactly those in the band are selected too; on a
\* symmetric mesh y plays no part in the selection.
C13_HalfYBand ==
    built = "ok" =>
        \A role \in Roles :
            Attr(cache, role) # None =>
                \A i, j \in 1..Len(RoleGrid(role)) :
                    (Attr(cache, role)[1][i] /\ SameXZ(RoleGrid(role)[i], RoleGrid(role)[j])) =>
                        IF NotSymmetric
                        THEN /\ YBandHalf(RoleGrid(role)[i], TargetY)
                             /\ Attr(cache, role)[1][j] <=> YBandHalf(RoleGrid(role)[j], TargetY)
                        ELSE Attr(cache, role)[1][j]

\* the same statement with the tophole electrode of TopCasingSrc left out
C13_HalfYBandButTophole ==
    built = "ok" =>
        \A role \in Roles \ {"tophole_electrode"} :
            Attr(cache, role) # None =>
                \A i, j \in 1..Len(RoleGrid(role)) :
                    (Attr(cache, role)[1][i] /\ SameXZ(RoleGrid(role)[i], RoleGrid(role)[j])) =>
                        IF NotSymmetric
                        THEN /\ YBandHalf(RoleGrid(role)[i], TargetY)
                             /\ Attr(cache, role)[1][j] <=> YBandHalf(RoleGrid(role)[j], TargetY)
                        ELSE Attr(cache, role)[1][j]

\* ----------------------------------------------------------------- C14
HEDWireCached == variant = "HED" /\ built = "ok" /\ cache._surface_wire # None

\* x between the endpoints' x, both ends included
HEDWireXBand(p) ==
    p[1] >= Min2(src_a[1], src_b[1]) /\ p[1] <= Max2(src_a[1], src_b[1])

\* z within half a minimum z cell of the z plane of the endpoints
HEDWireZBand(p) == 2 * Abs(p[3] - src_a[3]) < hmin(mesh.hz)

\* C14 (as stated): the surface wire of HorizontalElectricDipole selects
\* exactly the x-faces with x in [min(src_a.x, src_b.x), max(src_a.x, src_b.x)],
\* ends included, and z within half a minimum z cell of the endpoints' z
\* plane; swapping src_a and src_b selects the same faces.
C14_SurfaceWireBand ==
    HEDWireCached =>
        /\ \A i \in 1..Len(gridFx(mesh)) :
              cache._surface_wire[1][i] <=>
                  (HEDWireXBand(gridFx(mesh)[i]) /\ HEDWireZBand(gridFx(mesh)[i]))
        /\ cache._surface_wire[1] = HED_surface_wire_sel(gridFx(mesh), src_b, src_a)

\* C14 (amended): the surface wire selects exactly the x-faces with x in
\* [min(src_a.x, src_b.x), max(src_a.x, src_b.x)], ends included, z strictly
\* within half a minimum z cell of the endpoints' z plane and, when the mesh
\* is not symmetric, y strictly within half a minimum y cell of the
\* endpoints' y; swapping src_a and src_b selects the same faces.
C14_SurfaceWireBandInYBand ==
    HEDWireCached =>
        /\ \A i \in 1..Len(gridFx(mesh)) :
              cache._surface_wire[1][i] <=>
                  /\ HEDWireXBand(gridFx(mesh)[i])
                  /\ HEDWireZBand(gridFx(mesh)[i])
                  /\ (NotSymmetric => YBandHalf(gridFx(mesh)[i], src_a[2]))
        /\ cache._surface_wire[1] = HED_surface_wire_sel(gridFx(mesh), src_b, src_a)

\* src_a lies beyond src_b, on a plane of x-faces: the face at
\* x = src_a.x = max is selected and one further out is not
C14_Witness ==
    /\ HEDWireCached
    /\ src_a[1] > src_b[1]
    /\ \E i, j \in 1..Len(gridFx(mesh)) :
          /\ gridFx(mesh)[i][1] = src_a[1] /\ cache._surface_wire[1][i]
          /\ gridFx(mesh)[j][1] > src_a[1] /\ HEDWireZBand(gridFx(mesh)[j])
          /\ ~cache._surface_wire[1][j]

\* ----------------------------------------------------------------- C15
\* the segments the validators of the variant check
CheckedRoles ==
    UNION { { run[k].role : k \in 1..Len(run) } : run \in ValidatorRuns(variant) }

\* the mask selects no face
Empty(mask) == \A i \in 1..Len(mask) : ~mask[i]

AnyEmpty == \E role \in CheckedRoles : Empty(PureMask(role))

\* C15: validate() passes only if every segment it checks selects at least
\* one face and takes exactly one value on each of its transverse axes; a
\* checked segment that selects no face makes it fail with the assertion.
C15_EmptySegmentRejected ==
    (ret.op = "validate" /\ built = "ok") =>
        /\ ret.kind = "ok" =>
              \A run \in ValidatorRuns(variant) : \A k \in 1..Len(run) :
                  /\ ~Empty(PureMask(run[k].role))
                  /\ Cardinality(Locations(PureMask(run[k].role), run[k].axis,
                                           run[k].col)) = 1
        /\ AnyEmpty => (ret.kind = "AssertionError" /\ ret.vec = <<>>)

\* validate() has failed on an instance whose only fault is a segment
\* without faces
C15_Witness ==
    /\ ret.op = "validate" /\ built = "ok"
    /\ AnyEmpty /\ ~AnyNonUnique
    /\ ret.kind = "AssertionError"

====
